---- MODULE Spec2Model ----
(***************************************************************************)
(* trace-origin: traceOrigin(node, options) resolves a reference node to   *)
(* the file of its original declaration (src/trace_origin.ts).             *)
(*                                                                         *)
(* The semantic host (ts-morph) is external: it is modelled as the record  *)
(* `host`, a description of one parsed program, and the host queries the   *)
(* code makes (getSymbol, isAlias, getAliasedSymbol, getDeclarations, ...) *)
(* are operators that read it.  Symbols and nodes are numbers, 0 is        *)
(* `undefined`.  Strings are sequences of one-character strings, so that   *)
(* startsWith, dirname and relative are computed on characters.            *)
(***************************************************************************)
EXTENDS Integers, Sequences, FiniteSets, TLC

VARIABLES
    host,              \* the host's program model (never written by the code)
    pc,                \* "idle" | "walk" | "done": position of the current call
    node,              \* traceOrigin's argument `node`
    options,           \* traceOrigin's argument `options`
    relative,          \* options?.relative, as a boolean
    target,            \* targetNode (line 20), 0 before selection
    stack,             \* call stack of getOriginalSymbol activations
    result,            \* what traceOrigin returned (meaningful when pc = "done")
    origin,            \* the symbol getOriginalSymbol returned to traceOrigin
    originalFilePath,  \* line 39, <<>> when not reached
    raised,            \* a fault was raised inside the try block of this call
    expansions,        \* the symbols this call's walkers applied their rules to
    prev,              \* the previous completed call, kept for comparison
    other              \* a second call in flight, its variables set aside

vars == <<host, pc, node, options, relative, target, stack, result, origin,
          originalFilePath, raised, expansions, prev, other>>

-----------------------------------------------------------------------------
(* Bounds of the model and constants of the program *)

\* for (let i = 0; i < 30; i++)
MaxSteps == 30

\* longest alias / reassignment chain a host of the chain family holds
MaxChain == 32

\* longest chain in the family that mixes every kind of indirection
SmallLen == 2

\* activations of getOriginalSymbol the runtime's call stack holds before it
\* raises a RangeError
MaxStack == 4

-----------------------------------------------------------------------------
(* Strings and paths *)

\* String.prototype.startsWith
StartsWith(s, p) ==
    /\ Len(s) >= Len(p)
    /\ SubSeq(s, 1, Len(p)) = p

RECURSIVE SplitAcc(_, _, _)
SplitAcc(s, cur, acc) ==
    IF s = <<>>
    THEN IF cur = <<>> THEN acc ELSE Append(acc, cur)
    ELSE IF Head(s) = "/"
         THEN SplitAcc(Tail(s), <<>>, IF cur = <<>> THEN acc ELSE Append(acc, cur))
         ELSE SplitAcc(Tail(s), Append(cur, Head(s)), acc)

\* the non-empty segments of a path
Segments(s) == SplitAcc(s, <<>>, <<>>)

RECURSIVE JoinSegs(_)
JoinSegs(segs) ==
    IF segs = <<>> THEN <<>>
    ELSE IF Len(segs) = 1 THEN segs[1]
    ELSE segs[1] \o <<"/">> \o JoinSegs(Tail(segs))

RECURSIVE LastSlash(_, _)
LastSlash(s, k) ==
    IF k = 0 THEN 0
    ELSE IF s[k] = "/" THEN k ELSE LastSlash(s, k - 1)

\* path.dirname of a normalised absolute path
dirname(p) ==
    LET k == LastSlash(p, Len(p))
    IN  IF k = 0 THEN <<".">>
        ELSE IF k = 1 THEN <<"/">>
        ELSE SubSeq(p, 1, k - 1)

RECURSIVE CommonLen(_, _)
CommonLen(a, b) ==
    IF a = <<>> \/ b = <<>> THEN 0
    ELSE IF Head(a) = Head(b) THEN 1 + CommonLen(Tail(a), Tail(b)) ELSE 0

RECURSIVE Ups(_)
Ups(n) == IF n = 0 THEN <<>> ELSE <<(<<".", ".">>)>> \o Ups(n - 1)

\* path.relative(from, to) of two normalised absolute paths
relativePathOf(from, to) ==
    LET f == Segments(from)
        t == Segments(to)
        c == CommonLen(f, t)
    IN  JoinSegs(Ups(Len(f) - c) \o SubSeq(t, c + 1, Len(t)))

\* lines 45-52: relative(), then the './' prefix
RelativeResult(currentFileDir, origFilePath) ==
    LET relativePath == relativePathOf(currentFileDir, origFilePath)
    IN  IF ~StartsWith(relativePath, <<".">>)
        THEN <<".", "/">> \o relativePath
        ELSE relativePath

-----------------------------------------------------------------------------
(* The host's program model.                                               *)
(*                                                                         *)
(* A host h describes one program: a chain of symbols 1 .. N+1 that the    *)
(* traced references are bound to, where symbol s <= N = Len(h.hops) is an *)
(* indirection of kind h.hops[s] to symbol s+1 and symbol N+1 has the      *)
(* shape h.end, plus one more symbol N+2, an original definition in a file *)
(* of its own.  Kinds of indirection:                                      *)
(*   "alias"     import / export specifier whose aliased symbol is s+1     *)
(*   "alias0"    the same, the symbol exposing no declarations             *)
(*   "var"       `const S = T`, T bound to s+1                             *)
(*   "aliasvar"  an alias of s+1 declared by a variable declaration whose  *)
(*               initializer is bound to symbol N+2                        *)
(* Shapes of the last symbol:                                              *)
(*   "def"       an original definition (class, function)                  *)
(*   "def2"      the same with two declarations in two files               *)
(*   "nodecl"    a symbol with zero declarations                           *)
(*   "varlit"    `const S = 1`, the initializer bound to nothing           *)
(*   "varnoinit" `let S`                                                   *)
(*   "dangling"  an alias whose aliased symbol is undefined                *)
(*   "aliasback" an alias of symbol h.back (a cycle)                       *)
(*   "varback"   `const S = T`, T bound to symbol h.back (a cycle)         *)
(* h.prop is the symbol of property `p` in the structural type of the      *)
(* chain's value (0: the type has no such property).  h.operandDecl is a   *)
(* symbol whose declaration is itself the object operand of a dotted       *)
(* access `.p` (0: none).  h.faulty is the set of host queries that raise. *)
(***************************************************************************)

Stages == {"selection", "binding", "alias", "property", "declarations",
           "initializer", "location"}

HopKinds == {"alias", "alias0", "var", "aliasvar"}
EndKinds == {"def", "def2", "nodecl", "varlit", "varnoinit", "dangling",
             "aliasback", "varback"}

NumHops(h) == Len(h.hops)
LastSym(h) == NumHops(h) + 1
ExtraSym(h) == NumHops(h) + 2
NumSyms(h) == NumHops(h) + 2
Syms(h) == 1 .. NumSyms(h)

Shape(h, s) ==
    IF s <= NumHops(h) THEN h.hops[s]
    ELSE IF s = LastSym(h) THEN h.end
    ELSE "def"

\* Nodes.  For M = NumSyms(h):
\*   s          first declaration of symbol s
\*   M + s      second declaration of symbol s
\*   2M + s     initializer of the first declaration of symbol s
\*   3M + s     the dotted access `D.p` whose object operand is declaration s
\*   4M + k     the reference nodes of the consuming file, below
Decl(h, s) == s
Decl2(h, s) == NumSyms(h) + s
InitOf(h, s) == 2 * NumSyms(h) + s
DeclAccess(h, s) == 3 * NumSyms(h) + s
RefBase(h) == 4 * NumSyms(h)
RefPlain(h) == RefBase(h) + 1       \* `X;`           the identifier X
RefUnbound(h) == RefBase(h) + 2     \* `Unknown;`     an undeclared name
Access(h) == RefBase(h) + 3         \* `X.p;`         the whole expression
Operand(h) == RefBase(h) + 4        \*                its object operand X
NameHalf(h) == RefBase(h) + 5       \*                its name p
OuterAccess(h) == RefBase(h) + 6    \* `X.p.q;`       the whole expression
InnerAccess(h) == RefBase(h) + 7    \*                its object operand X.p
InnerOperand(h) == RefBase(h) + 8   \*                X
OuterName(h) == RefBase(h) + 9      \*                its name q
Statement(h) == RefBase(h) + 10     \* the statement `X;` that holds RefPlain
Literal(h) == RefBase(h) + 11       \* `1;`           a node with no identifier
Nodes(h) == 1 .. (RefBase(h) + 11)

IsDecl(h, n) == n \in 1 .. NumSyms(h)
IsDecl2(h, n) == n \in (NumSyms(h) + 1) .. (2 * NumSyms(h))
IsInit(h, n) == n \in (2 * NumSyms(h) + 1) .. (3 * NumSyms(h))
IsDeclAccess(h, n) == n \in (3 * NumSyms(h) + 1) .. (4 * NumSyms(h))
SymOfNode(h, n) == ((n - 1) % NumSyms(h)) + 1

VarShapes == {"var", "aliasvar", "varlit", "varnoinit", "varback"}

\* node.getKind()
GetKind(h, n) ==
    IF IsDecl(h, n) \/ IsDecl2(h, n)
    THEN IF Shape(h, SymOfNode(h, n)) \in VarShapes
         THEN "VariableDeclaration" ELSE "Other"
    ELSE IF IsInit(h, n) THEN "Identifier"
    ELSE IF IsDeclAccess(h, n) THEN "PropertyAccessExpression"
    ELSE IF n \in {Access(h), OuterAccess(h), InnerAccess(h)}
         THEN "PropertyAccessExpression"
    ELSE IF n \in {Statement(h), Literal(h)} THEN "Other"
    ELSE "Identifier"

\* node.getParent(), 0 when the parent is of no interest (never a dotted access)
GetParent(h, n) ==
    IF IsDecl(h, n) /\ n = h.operandDecl THEN DeclAccess(h, n)
    ELSE IF IsInit(h, n) THEN Decl(h, SymOfNode(h, n))
    ELSE IF n \in {Operand(h), NameHalf(h)} THEN Access(h)
    ELSE IF n \in {InnerAccess(h), OuterName(h)} THEN OuterAccess(h)
    ELSE IF n = InnerOperand(h) THEN InnerAccess(h)
    ELSE IF n = RefPlain(h) THEN Statement(h)
    ELSE 0

\* PropertyAccessExpression.getExpression()
GetExpression(h, n) ==
    IF IsDeclAccess(h, n) THEN Decl(h, SymOfNode(h, n))
    ELSE IF n = Access(h) THEN Operand(h)
    ELSE IF n = OuterAccess(h) THEN InnerAccess(h)
    ELSE IF n = InnerAccess(h) THEN InnerOperand(h)
    ELSE 0

\* PropertyAccessExpression.getName()
GetName(h, n) == IF n = OuterAccess(h) THEN "q" ELSE "p"

\* node.getFirstDescendantByKind(SyntaxKind.Identifier)
GetFirstIdentifier(h, n) ==
    IF n = Statement(h) THEN RefPlain(h)
    ELSE IF n \in {Access(h), InnerAccess(h)} THEN n + 1
    ELSE IF n = OuterAccess(h) THEN InnerOperand(h)
    ELSE 0

\* symbol.isAlias()
IsAlias(h, s) == Shape(h, s) \in {"alias", "alias0", "aliasvar", "dangling", "aliasback"}

\* symbol.getAliasedSymbol()
GetAliasedSymbol(h, s) ==
    IF Shape(h, s) \in {"alias", "alias0", "aliasvar"} THEN s + 1
    ELSE IF Shape(h, s) = "aliasback" THEN h.back
    ELSE 0

\* symbol.getDeclarations()
GetDeclarations(h, s) ==
    IF Shape(h, s) \in {"nodecl", "alias0"} THEN <<>>
    ELSE IF Shape(h, s) = "def2" THEN <<Decl(h, s), Decl2(h, s)>>
    ELSE <<Decl(h, s)>>

\* declaration.getInitializer()
GetInitializer(h, n) ==
    IF IsDecl(h, n) /\ Shape(h, n) \in {"var", "aliasvar", "varlit", "varback"}
    THEN InitOf(h, n) ELSE 0

\* node.getSymbol()
GetSymbol(h, n) ==
    IF IsDecl(h, n) \/ IsDecl2(h, n) THEN SymOfNode(h, n)
    ELSE IF IsInit(h, n)
    THEN LET s == SymOfNode(h, n)
         IN  IF Shape(h, s) = "var" THEN s + 1
             ELSE IF Shape(h, s) = "aliasvar" THEN ExtraSym(h)
             ELSE IF Shape(h, s) = "varback" THEN h.back
             ELSE 0
    ELSE IF n \in {RefPlain(h), Operand(h), InnerOperand(h)} THEN 1
    ELSE IF n \in {Access(h), NameHalf(h), InnerAccess(h)} \/ IsDeclAccess(h, n)
         THEN h.prop
    ELSE 0

\* declaration.getType().getProperty(name): the chain's symbols all denote
\* one value, whose type has property `p` when h.prop # 0
GetTypeProperty(h, n, name) ==
    IF name = "p" /\ IsDecl(h, n) /\ n <= LastSym(h) THEN h.prop ELSE 0

RECURSIVE Digits(_)
Digits(n) ==
    LET d == <<"0", "1", "2", "3", "4", "5", "6", "7", "8", "9">>
    IN  IF n < 10 THEN <<d[n + 1]>> ELSE Digits(n \div 10) \o <<d[(n % 10) + 1]>>

\* node.getSourceFile().getFilePath()
GetFilePath(h, n) ==
    IF IsDecl(h, n) \/ IsInit(h, n) \/ IsDeclAccess(h, n)
    THEN LET s == SymOfNode(h, n)
         IN  IF s = LastSym(h) THEN h.originFile
             ELSE IF s = ExtraSym(h) THEN <<"/", "s", "/", "x">>
             ELSE IF s = 1 THEN h.refFile
             ELSE <<"/", "s", "/", "l", "/", "c">> \o Digits(s)
    ELSE IF IsDecl2(h, n) THEN <<"/", "s", "/", "y">>
    ELSE h.refFile

-----------------------------------------------------------------------------
(* Results of traceOrigin *)

Undefined == [kind |-> "undefined", value |-> <<>>]
PathResult(p) == [kind |-> "string", value |-> p]
Thrown == [kind |-> "thrown", value |-> <<>>]

-----------------------------------------------------------------------------
(* getTargetNodeForResolution, lines 146-175 *)

\* mutant of getTargetNodeForResolution: the name half is not redirected
\* (line 164 returns the node)
SelectorKeepsName(h, n) ==
    IF GetKind(h, n) = "PropertyAccessExpression"
    THEN GetExpression(h, n)
    ELSE IF GetKind(h, n) = "Identifier" THEN n
    ELSE IF GetFirstIdentifier(h, n) # 0 THEN GetFirstIdentifier(h, n)
    ELSE n

\* mutant of getTargetNodeForResolution: the parent is looked at first
\* (lines 148-151 come after lines 154-165)
SelectorParentFirst(h, n) ==
    LET parent == GetParent(h, n)
    IN  IF parent # 0 /\ GetKind(h, parent) = "PropertyAccessExpression"
        THEN IF GetExpression(h, parent) = n THEN n
             ELSE GetExpression(h, parent)
        ELSE IF GetKind(h, n) = "PropertyAccessExpression"
        THEN GetExpression(h, n)
        ELSE IF GetKind(h, n) = "Identifier" THEN n
        ELSE IF GetFirstIdentifier(h, n) # 0 THEN GetFirstIdentifier(h, n)
        ELSE n

getTargetNodeForResolution(h, n) ==
    IF GetKind(h, n) = "PropertyAccessExpression"
    THEN GetExpression(h, n)
    ELSE LET parent == GetParent(h, n)
         IN  IF parent # 0 /\ GetKind(h, parent) = "PropertyAccessExpression"
             THEN IF GetExpression(h, parent) = n THEN n
                  ELSE GetExpression(h, parent)
             ELSE IF GetKind(h, n) = "Identifier" THEN n
             ELSE IF GetFirstIdentifier(h, n) # 0 THEN GetFirstIdentifier(h, n)
             ELSE n

-----------------------------------------------------------------------------
(* getOriginalSymbol, lines 66-119, and resolvePropertySymbol, lines       *)
(* 124-140.  An activation of getOriginalSymbol is a frame                 *)
(*   [current, symbol, visited, i, pc]                                     *)
(* with pc = "loop" at the head of the for loop, "await" while the call of *)
(* resolvePropertySymbol at line 80 is running, "ret" at line 118.  A      *)
(* frame also records its history: start, the node it was entered with;    *)
(* before, from and rule, the symbol and node held before the last         *)
(* adoption and the rule that adopted; why, the reason it left the loop.   *)
(* One step of a frame yields an outcome:                                  *)
(*   [k |-> "frame", f]     the frame goes on (or returns) as f            *)
(*   [k |-> "call", f, g]   f waits for the new activation g               *)
(*   [k |-> "throw"]        a host query raised                            *)
(***************************************************************************)

Throw == [k |-> "throw"]
Goes(f) == [k |-> "frame", f |-> f]
Calls(f, g) == [k |-> "call", f |-> f, g |-> g]

\* the activation returns (lines 72-73, 115, 118, or the loop's condition at
\* line 71 failing); why records which of them it was
Stops(f, why) == Goes([f EXCEPT !.pc = "ret", !.why = why])

\* `symbol = s; current = n; continue`; before, from and rule record what the
\* activation held before this adoption and which rule adopted
Takes(f, s, n, rule) ==
    Goes([f EXCEPT !.before = f.symbol, !.from = f.current, !.rule = rule,
                   !.symbol = s, !.current = n, !.i = @ + 1, !.pc = "loop"])

\* mutant of Enter: the activation works on the set in reach (a set that
\* outlives the activation)
EnterShared(h, n, given) ==
    [start |-> n, current |-> n, symbol |-> GetSymbol(h, n),
     visited |-> given, i |-> 0, pc |-> "loop",
     before |-> 0, from |-> 0, rule |-> "", why |-> ""]

\* mutant of NewVisited: the set in reach is reused instead of a new one
ReusedVisited(given) == given

\* line 70: const visited = new Set<Symbol>(); `given` is the set that is in
\* reach at that point and is not reused: the one the caller passed down
\* (line 80), or the one the previous trace left behind
NewVisited(given) == {}

\* lines 67-70: a new activation starting at node n
Enter(h, n, given) ==
    [start |-> n, current |-> n, symbol |-> GetSymbol(h, n),
     visited |-> NewVisited(given), i |-> 0, pc |-> "loop",
     before |-> 0, from |-> 0, rule |-> "", why |-> ""]

\* mutant of Adopt: the declaration is adopted, the symbol is not
AdoptKeepsSymbol(h, f, s, rule) ==
    IF "declarations" \in h.faulty THEN Throw
    ELSE LET decls == GetDeclarations(h, s)
         IN  Takes(f, f.symbol, IF decls # <<>> THEN decls[1] ELSE f.current, rule)

\* lines 82-85 and 92-95: adopt symbol s, move to its first declaration, continue
Adopt(h, f, s, rule) ==
    IF "declarations" \in h.faulty THEN Throw
    ELSE LET decls == GetDeclarations(h, s)
         IN  Takes(f, s, IF decls # <<>> THEN decls[1] ELSE f.current, rule)

\* mutant of FollowInitializer: the reassignment rule is missing
FollowInitializerStops(h, f) == Stops(f, "terminal")

\* mutant of FollowInitializer: the initializer's symbol is adopted without
\* the test of line 106
FollowInitializerUnguarded(h, f) ==
    IF "declarations" \in h.faulty THEN Throw
    ELSE LET declarations == GetDeclarations(h, f.symbol)
         IN  IF declarations = <<>> THEN Stops(f, "terminal")
             ELSE IF GetKind(h, declarations[1]) # "VariableDeclaration"
                  THEN Stops(f, "terminal")
             ELSE IF "initializer" \in h.faulty THEN Throw
             ELSE LET initializer == GetInitializer(h, declarations[1])
                  IN  IF initializer = 0 THEN Stops(f, "terminal")
                      ELSE IF "binding" \in h.faulty THEN Throw
                      ELSE Takes(f, GetSymbol(h, initializer), initializer,
                                 "initializer")

\* lines 99-115: follow the initializer of a variable declaration, or stop
FollowInitializer(h, f) ==
    IF "declarations" \in h.faulty THEN Throw
    ELSE LET declarations == GetDeclarations(h, f.symbol)
         IN  IF declarations = <<>> THEN Stops(f, "terminal")
             ELSE IF GetKind(h, declarations[1]) # "VariableDeclaration"
                  THEN Stops(f, "terminal")
             ELSE IF "initializer" \in h.faulty THEN Throw
             ELSE LET initializer == GetInitializer(h, declarations[1])
                  IN  IF initializer = 0 THEN Stops(f, "terminal")
                      ELSE IF "binding" \in h.faulty THEN Throw
                      ELSE IF GetSymbol(h, initializer) = 0
                           THEN Stops(f, "terminal")
                      ELSE Takes(f, GetSymbol(h, initializer), initializer,
                                 "initializer")

\* mutant of FollowAlias: the alias rule is missing (lines 89-97)
FollowAliasMissing(h, f) == FollowInitializer(h, f)

\* mutant of FollowAlias: the reassignment rule comes before the alias rule
FollowAliasSecond(h, f) ==
    IF "alias" \in h.faulty THEN Throw
    ELSE LET declarations == GetDeclarations(h, f.symbol)
         IN  IF /\ declarations # <<>>
                /\ GetKind(h, declarations[1]) = "VariableDeclaration"
                /\ GetInitializer(h, declarations[1]) # 0
                /\ GetSymbol(h, GetInitializer(h, declarations[1])) # 0
             THEN FollowInitializer(h, f)
             ELSE IF IsAlias(h, f.symbol) /\ GetAliasedSymbol(h, f.symbol) # 0
                  THEN Adopt(h, f, GetAliasedSymbol(h, f.symbol), "alias")
                  ELSE FollowInitializer(h, f)

\* lines 89-115: the alias rule, then the reassignment rule
FollowAlias(h, f) ==
    IF "alias" \in h.faulty THEN Throw
    ELSE IF IsAlias(h, f.symbol) /\ GetAliasedSymbol(h, f.symbol) # 0
         THEN Adopt(h, f, GetAliasedSymbol(h, f.symbol), "alias")
         ELSE FollowInitializer(h, f)

\* line 78: current is the object operand of a dotted access
IsObjectOperand(h, n) ==
    LET parent == GetParent(h, n)
    IN  /\ parent # 0
        /\ GetKind(h, parent) = "PropertyAccessExpression"
        /\ GetExpression(h, parent) = n

\* mutant of PropertyDeclaration: a property the type does not have raises
PropertyDeclarationStrict(h, symbol, propertyName) ==
    IF "declarations" \in h.faulty THEN -1
    ELSE LET declarations == GetDeclarations(h, symbol)
         IN  IF declarations = <<>> THEN 0
             ELSE IF "property" \in h.faulty THEN -1
             ELSE LET prop == GetTypeProperty(h, declarations[1], propertyName)
                  IN  IF prop = 0 THEN -1
                      ELSE IF GetDeclarations(h, prop) = <<>> THEN 0
                      ELSE GetDeclarations(h, prop)[1]

\* lines 125-136: the declaration resolvePropertySymbol hands to
\* getOriginalSymbol; 0 when it returns undefined without the call;
\* -1 when a host query raises
PropertyDeclaration(h, symbol, propertyName) ==
    IF "declarations" \in h.faulty THEN -1
    ELSE LET declarations == GetDeclarations(h, symbol)
         IN  IF declarations = <<>> THEN 0
             ELSE IF "property" \in h.faulty THEN -1
             ELSE LET prop == GetTypeProperty(h, declarations[1], propertyName)
                  IN  IF prop = 0 THEN 0
                      ELSE IF GetDeclarations(h, prop) = <<>> THEN 0
                      ELSE GetDeclarations(h, prop)[1]

\* line 71: i < 30
BudgetLeftOffByOne(i) == i < MaxSteps - 1

BudgetLeft(i) == i < MaxSteps

\* lines 71-75: the pass goes beyond the test of line 72: the frame's symbol
\* is added to visited and the rules are applied to it
Expands(f) == BudgetLeft(f.i) /\ f.symbol # 0 /\ f.symbol \notin f.visited

\* lines 71-73: why a pass that does not expand leaves the loop
StopReason(f) ==
    IF ~BudgetLeft(f.i) THEN "budget"
    ELSE IF f.symbol = 0 THEN "absent"
    ELSE "visited"

\* mutant of LoopPass: no composite property resolution (lines 77-87 missing)
LoopPassNoProperty(h, f, depth) ==
    IF ~Expands(f)
    THEN Stops(f, StopReason(f))
    ELSE FollowAlias(h, [f EXCEPT !.visited = @ \cup {f.symbol}])

\* lines 71-116: one pass of the loop body, up to the call at line 135, the
\* `continue`, or the `break`; depth is the number of activations on the stack
LoopPass(h, f, depth) ==
    IF ~Expands(f)
    THEN Stops(f, StopReason(f))
    ELSE LET g == [f EXCEPT !.visited = @ \cup {f.symbol}]
         IN  IF IsObjectOperand(h, g.current)
             THEN LET d == PropertyDeclaration(h, g.symbol,
                                               GetName(h, GetParent(h, g.current)))
                  IN  IF d = -1 THEN Throw
                      ELSE IF d = 0 THEN FollowAlias(h, g)
                      ELSE IF "binding" \in h.faulty \/ depth >= MaxStack THEN Throw
                      ELSE Calls([g EXCEPT !.pc = "await"], Enter(h, d, g.visited))
             ELSE FollowAlias(h, g)

\* lines 80-87: resolvePropertySymbol returned r to the waiting frame f
Resume(h, f, r) ==
    IF r # 0 THEN Adopt(h, f, r, "property") ELSE FollowAlias(h, f)

-----------------------------------------------------------------------------
(* traceOrigin, lines 18-60 *)

\* mutant of CatchHandler: the fault is passed on to the caller
CatchRethrows == Thrown

\* lines 56-59: the catch clause
CatchHandler == Undefined

\* the forms of the argument `options`: left out, {}, {relative: false},
\* {relative: true}
Options == {"omitted", "empty", "false", "true"}

\* mutant of OptionsRelative: relative unless switched off
OptionsRelativeByDefault(o) == o # "false"

\* line 42: options?.relative, as the condition of the if
OptionsRelative(o) == o = "true"

\* mutant of FormatPath: relative to the referencing file, not its directory
FormatPathNoDirname(rel, currentFilePath, origFilePath) ==
    IF rel THEN RelativeResult(currentFilePath, origFilePath)
    ELSE origFilePath

\* lines 42-55: the path traceOrigin returns for a declaration in file
\* origFilePath, the target node being in file currentFilePath
FormatPath(rel, currentFilePath, origFilePath) ==
    IF rel THEN RelativeResult(dirname(currentFilePath), origFilePath)
    ELSE origFilePath

\* lines 30-55: the path for a symbol the walker returned
ConcludeSymbol(h, symbol, rel, targetNode) ==
    IF "declarations" \in h.faulty THEN Throw
    ELSE IF GetDeclarations(h, symbol) = <<>>
         THEN [k |-> "return", result |-> Undefined, file |-> <<>>]
    ELSE IF "location" \in h.faulty THEN Throw
    ELSE LET origFilePath == GetFilePath(h, GetDeclarations(h, symbol)[1])
         IN  [k |-> "return",
              result |-> PathResult(FormatPath(rel, GetFilePath(h, targetNode),
                                               origFilePath)),
              file |-> origFilePath]

\* mutant of Conclude: an unbound reference is reported as coming from the
\* file it stands in
ConcludeFallsBack(h, symbol, rel, targetNode) ==
    IF symbol = 0
    THEN [k |-> "return",
          result |-> PathResult(FormatPath(rel, GetFilePath(h, targetNode),
                                           GetFilePath(h, targetNode))),
          file |-> GetFilePath(h, targetNode)]
    ELSE ConcludeSymbol(h, symbol, rel, targetNode)

\* lines 26-55: what traceOrigin does with the symbol the walker returned
Conclude(h, symbol, rel, targetNode) ==
    IF symbol = 0 THEN [k |-> "return", result |-> Undefined, file |-> <<>>]
    ELSE ConcludeSymbol(h, symbol, rel, targetNode)

-----------------------------------------------------------------------------
(* The programs traced *)

IndexFile == <<"/", "s", "/", "i">>
AFile == <<"/", "s", "/", "a">>

\* files a reference is in, and files a definition is in
RefFiles == {IndexFile, <<"/", "s", "/", "c", "/", "u">>, <<"/", "i">>}
OriginFiles == {AFile, <<"/", "s", "/", "l", "/", "b">>, <<"/", "a">>,
                <<"/", "s", "/", ".", "h">>, <<"/", "s", "/", ".", "e", "/", "b">>,
                <<"/", "s", "/", "c", "/", "a">>, <<"/", "l", "/", "b">>}

SeqsUpTo(S, n) == UNION {[1 .. k -> S] : k \in 0 .. n}

\* a program, the reference nodes of it that are traced (refs) and the forms
\* of options they are traced with (opts)
MkHost(hops, end, back, prop, operandDecl, faulty, refFile, originFile, refs, opts) ==
    [hops |-> hops, end |-> end, back |-> back, prop |-> prop,
     operandDecl |-> operandDecl, faulty |-> faulty,
     refFile |-> refFile, originFile |-> originFile, refs |-> refs,
     opts |-> opts]

\* options left out and {relative: true}
TwoOptions == {"omitted", "true"}

Backs(hs, e) == IF e \in {"aliasback", "varback"} THEN 1 .. (Len(hs) + 1) ELSE {1}

\* every mix of indirections up to SmallLen, every shape of the last symbol,
\* every contributor of property p; traced: `X`, and `X` of `X.p`
SmallHosts ==
    {MkHost(hs, e, b, p, 0, {}, IndexFile, AFile, {1, 4}, TwoOptions) :
        <<hs, e, b, p>> \in
            {t \in SeqsUpTo(HopKinds, SmallLen) \X EndKinds
                     \X (1 .. (SmallLen + 1)) \X (0 .. (SmallLen + 2)) :
                /\ t[3] \in Backs(t[1], t[2])
                /\ t[4] <= Len(t[1]) + 2}}

\* chains of one kind of indirection up to MaxChain
ChainHosts ==
    {MkHost([i \in 1 .. n |-> k], "def", 1, 0, 0, {}, IndexFile, AFile, {1, 4},
            TwoOptions) :
        <<n, k>> \in ((SmallLen + 1) .. MaxChain) \X {"alias", "var"}}

\* every kind of reference node and every form of options, over programs
\* of one import
RefHosts ==
    {MkHost(<<"alias">>, e, 1, p, 0, {}, IndexFile, AFile, 1 .. 11, Options) :
        <<e, p>> \in {"def", "varlit", "def2", "nodecl"} \X {0, 3}}

\* hosts one of whose queries raises
FaultHosts ==
    {MkHost(<<"alias", "var">>, e, 1, p, 0, {st}, IndexFile, AFile, {1, 2, 3, 4},
            TwoOptions) :
        <<e, p, st>> \in {"def", "varlit"} \X {0, 4} \X Stages}

\* file layouts
PathHosts ==
    {MkHost(<<"alias", "alias">>, "def", 1, 0, 0, {}, rf, of, {1}, Options) :
        <<rf, of>> \in RefFiles \X OriginFiles}

\* programs in which the declaration that contributes a property is itself
\* the object operand of a dotted access
OperandDeclHosts ==
    {MkHost(hs, "def", 1, p, d, {}, IndexFile, AFile, {1, 4}, TwoOptions) :
        <<hs, p, d>> \in
            {t \in SeqsUpTo({"alias", "var"}, 1) \X (1 .. 3) \X (1 .. 3) :
                /\ t[2] <= Len(t[1]) + 2
                /\ t[3] <= Len(t[1]) + 2}}

\* the program of the test "resolves direct re-assignment alias":
\* index.ts imports Alias from b.ts, where `const Alias = Foo` and Foo is
\* imported from a.ts, where `export const Foo = 1`
ReassignmentHosts ==
    {MkHost(<<"alias", "var", "alias">>, "varlit", 1, 0, 0, {}, IndexFile, AFile,
            {1}, Options)}

Hosts == SmallHosts \cup ChainHosts \cup RefHosts \cup FaultHosts
            \cup PathHosts \cup OperandDeclHosts \cup ReassignmentHosts

-----------------------------------------------------------------------------
(* The state machine *)

NoPrev ==
    [node |-> 0, options |-> "omitted", result |-> Undefined, raised |-> FALSE,
     left |-> {}]

\* the variables of a call
Running ==
    [pc |-> pc, node |-> node, options |-> options, relative |-> relative,
     target |-> target, stack |-> stack, result |-> result, origin |-> origin,
     originalFilePath |-> originalFilePath, raised |-> raised,
     expansions |-> expansions, prev |-> prev]

\* no call yet
Idle ==
    [pc |-> "idle", node |-> 0, options |-> "omitted", relative |-> FALSE,
     target |-> 0, stack |-> <<>>, result |-> Undefined, origin |-> 0,
     originalFilePath |-> <<>>, raised |-> FALSE, expansions |-> <<>>,
     prev |-> NoPrev]

InitOver(programs) ==
    /\ host \in programs
    /\ pc = "idle"
    /\ node = 0
    /\ options = "omitted"
    /\ relative = FALSE
    /\ target = 0
    /\ stack = <<>>
    /\ result = Undefined
    /\ origin = 0
    /\ originalFilePath = <<>>
    /\ raised = FALSE
    /\ expansions = <<>>
    /\ prev = NoPrev
    /\ other = Idle

Init == InitOver(Hosts)

\* the visited sets of the call set aside
VisitedOfOther == UNION {other.stack[k].visited : k \in 1 .. Len(other.stack)}

Top == stack[Len(stack)]

\* lines 56-59: a fault raised anywhere in the try block ends the call
Caught ==
    /\ pc' = "done"
    /\ result' = CatchHandler
    /\ raised' = TRUE

\* lines 18-25 and 67-70: traceOrigin(n, opt) up to the head of the walker's
\* loop; p is the record of the call before it
Begin(n, opt, p) ==
    /\ node' = n
    /\ options' = opt
    /\ relative' = OptionsRelative(opt)
    /\ prev' = p
    /\ origin' = 0
    /\ originalFilePath' = <<>>
    /\ expansions' = <<>>
    /\ UNCHANGED <<host, other>>
    /\ IF "selection" \in host.faulty
       THEN /\ Caught
            /\ target' = 0
            /\ stack' = <<>>
       ELSE LET targetNode == getTargetNodeForResolution(host, n)
            IN  /\ target' = targetNode
                /\ IF targetNode = 0
                   THEN /\ pc' = "done"
                        /\ result' = Undefined
                        /\ raised' = FALSE
                        /\ stack' = <<>>
                   ELSE IF "binding" \in host.faulty
                   THEN /\ Caught
                        /\ stack' = <<>>
                   ELSE /\ pc' = "walk"
                        /\ result' = Undefined
                        /\ raised' = FALSE
                        /\ stack' = <<Enter(host, targetNode,
                                             p.left \cup VisitedOfOther)>>

\* a first call of traceOrigin
TraceOrigin(n, opt) ==
    /\ pc = "idle"
    /\ Begin(n, opt, NoPrev)

\* the record of the call that has just ended
Ended ==
    [node |-> node, options |-> options, result |-> result, raised |-> raised,
     left |-> IF stack = <<>> THEN {} ELSE stack[1].visited]

\* the same call once more, over the unchanged host
TraceAgain ==
    /\ pc = "done"
    /\ Begin(node, options, Ended)

\* after a call on `X.p`, its object operand or its name: a call on the plain
\* reference `X;` with the same options
TraceObject ==
    /\ pc = "done"
    /\ node \in {Access(host), Operand(host), NameHalf(host)}
    /\ 1 \in host.refs
    /\ Begin(RefPlain(host), options, Ended)

\* one pass of the loop of the innermost activation
WalkerStep ==
    /\ pc = "walk"
    /\ Top.pc = "loop"
    /\ expansions' = IF Expands(Top) THEN Append(expansions, Top.symbol)
                      ELSE expansions
    /\ LET out == LoopPass(host, Top, Len(stack))
       IN  IF out.k = "throw"
           THEN /\ Caught
                /\ UNCHANGED stack
           ELSE /\ stack' = IF out.k = "call"
                            THEN SubSeq(stack, 1, Len(stack) - 1) \o <<out.f, out.g>>
                            ELSE SubSeq(stack, 1, Len(stack) - 1) \o <<out.f>>
                /\ UNCHANGED <<pc, result, raised>>
    /\ UNCHANGED <<host, node, options, relative, target, origin, originalFilePath,
                 prev, other>>

\* lines 118, 135, 80: an inner activation returns to resolvePropertySymbol,
\* which returns to the activation waiting at line 80
WalkerReturn ==
    /\ pc = "walk"
    /\ Len(stack) > 1
    /\ Top.pc = "ret"
    /\ LET out == Resume(host, stack[Len(stack) - 1], Top.symbol)
       IN  IF out.k = "throw"
           THEN /\ Caught
                /\ UNCHANGED stack
           ELSE /\ stack' = SubSeq(stack, 1, Len(stack) - 2) \o <<out.f>>
                /\ UNCHANGED <<pc, result, raised>>
    /\ UNCHANGED <<host, node, options, relative, target, origin, originalFilePath,
                 expansions, prev, other>>

\* lines 118 and 25-55: the outermost activation returns to traceOrigin
Finish ==
    /\ pc = "walk"
    /\ Len(stack) = 1
    /\ Top.pc = "ret"
    /\ origin' = Top.symbol
    /\ LET out == Conclude(host, Top.symbol, relative, target)
       IN  IF out.k = "throw"
           THEN /\ Caught
                /\ originalFilePath' = <<>>
           ELSE /\ pc' = "done"
                /\ result' = out.result
                /\ originalFilePath' = out.file
                /\ raised' = FALSE
    /\ UNCHANGED <<host, node, options, relative, target, stack, expansions, prev,
                 other>>

Next ==
    \/ \E k \in host.refs, opt \in host.opts : TraceOrigin(RefBase(host) + k, opt)
    \/ TraceAgain
    \/ TraceObject
    \/ WalkerStep
    \/ WalkerReturn
    \/ Finish

Spec == Init /\ [][Next]_vars

-----------------------------------------------------------------------------
(* Two calls in flight over one host: the steps of the two calls interleave *)
(* in any order.  Switch sets the running call aside and takes up the one   *)
(* that was set aside.                                                      *)

\* programs traced by two calls at a time: an import, alone or through a
\* reassignment, of a definition or of an alias cycle, `X` and `X.p` traced
ConcHosts ==
    {MkHost(hs, e, 1, IF q THEN Len(hs) + 2 ELSE 0, 0, {}, IndexFile, AFile,
            {1, 4}, TwoOptions) :
        <<hs, e, q>> \in {<<"alias">>, <<"alias", "var">>}
                           \X {"def", "aliasback"} \X BOOLEAN}

Switch ==
    /\ other' = Running
    /\ pc' = other.pc
    /\ node' = other.node
    /\ options' = other.options
    /\ relative' = other.relative
    /\ target' = other.target
    /\ stack' = other.stack
    /\ result' = other.result
    /\ origin' = other.origin
    /\ originalFilePath' = other.originalFilePath
    /\ raised' = other.raised
    /\ expansions' = other.expansions
    /\ prev' = other.prev
    /\ UNCHANGED host

InitConc == InitOver(ConcHosts)

NextConc ==
    \/ \E k \in host.refs, opt \in host.opts : TraceOrigin(RefBase(host) + k, opt)
    \/ TraceAgain
    \/ TraceObject
    \/ WalkerStep
    \/ WalkerReturn
    \/ Finish
    \/ Switch

SpecConc == InitConc /\ [][NextConc]_vars

-----------------------------------------------------------------------------
(* What the specification calls the origin of a symbol (sections 4.2 and   *)
(* the glossary): the symbol at the end of its chain of indirections.      *)

\* the symbol that s stands for: its aliased symbol, else the symbol its
\* declaration's initializer is bound to, else 0 (s is terminal)
Successor(h, s) ==
    IF IsAlias(h, s) /\ GetAliasedSymbol(h, s) # 0 THEN GetAliasedSymbol(h, s)
    ELSE LET d == GetDeclarations(h, s)
         IN  IF /\ d # <<>>
                /\ GetKind(h, d[1]) = "VariableDeclaration"
                /\ GetInitializer(h, d[1]) # 0
             THEN GetSymbol(h, GetInitializer(h, d[1]))
             ELSE 0

IsAliasHop(h, s) == IsAlias(h, s) /\ GetAliasedSymbol(h, s) # 0
IsReassignment(h, s) == ~IsAliasHop(h, s) /\ Successor(h, s) # 0

\* the number of indirections from s to its terminal symbol, -1 when more
\* than fuel (the chain is cyclic)
RECURSIVE Depth(_, _, _)
Depth(h, s, fuel) ==
    IF Successor(h, s) = 0 THEN 0
    ELSE IF fuel = 0 THEN -1
    ELSE LET r == Depth(h, Successor(h, s), fuel - 1)
         IN  IF r = -1 THEN -1 ELSE r + 1

Acyclic(h, s) == Depth(h, s, NumSyms(h)) # -1

\* the symbols of the chain of s, s included (s acyclic)
RECURSIVE ChainOf(_, _)
ChainOf(h, s) ==
    IF Successor(h, s) = 0 THEN {s} ELSE {s} \cup ChainOf(h, Successor(h, s))

\* the terminal symbol of the chain of s (s acyclic)
RECURSIVE OriginOf(_, _)
OriginOf(h, s) ==
    IF Successor(h, s) = 0 THEN s ELSE OriginOf(h, Successor(h, s))

\* the file of the first declaration of symbol s, <<>> when it has none
FileOfSymbol(h, s) ==
    IF GetDeclarations(h, s) = <<>> THEN <<>>
    ELSE GetFilePath(h, GetDeclarations(h, s)[1])

OriginFile(h, s) == FileOfSymbol(h, OriginOf(h, s))

\* a completed call in a program whose queries do not raise and whose
\* declarations are no operands of dotted accesses
Completed ==
    /\ pc = "done"
    /\ host.faulty = {}
    /\ host.operandDecl = 0

\* the property context of the target node: the declaration contributing the
\* property named after the dot, 0 when the target is no object operand or
\* the lookup misses
Contributor(h, n) ==
    IF IsObjectOperand(h, n) /\ GetSymbol(h, n) # 0
    THEN LET d == PropertyDeclaration(h, GetSymbol(h, n), GetName(h, GetParent(h, n)))
         IN  IF d > 0 /\ GetSymbol(h, d) # 0 THEN d ELSE 0
    ELSE 0

-----------------------------------------------------------------------------
(* C1: chains of aliases / re-exports *)

\* the chain of s is acyclic and made of alias hops only
PureAliasChain(h, s) ==
    /\ s # 0
    /\ Acyclic(h, s)
    /\ \A t \in ChainOf(h, s) : Successor(h, t) # 0 => IsAliasHop(h, t)

\* a completed trace of a reference bound to a pure alias chain, without a
\* property context
C1_Case ==
    /\ Completed
    /\ Contributor(host, target) = 0
    /\ PureAliasChain(host, GetSymbol(host, target))

\* the trace resolved to the file of the declaration at the end of the chain
C1_Innermost ==
    LET file == OriginFile(host, GetSymbol(host, target))
    IN  /\ originalFilePath = file
        /\ (file = <<>>) = (result = Undefined)
        /\ (file # <<>> /\ ~relative) => result = PathResult(file)

\* C1 as stated: for every non-cyclic chain of aliases / re-exports of any
\* depth N, traceOrigin returns the file of the innermost declaration,
\* whatever N is.
C1_AnyDepth == C1_Case => C1_Innermost

\* C1 as amended: for every non-cyclic chain of aliases / re-exports of depth
\* N <= 30 (the walker's step cap), traceOrigin returns the file of the
\* innermost declaration.
C1_WithinCap ==
    (C1_Case /\ Depth(host, GetSymbol(host, target), NumSyms(host)) <= MaxSteps)
        => C1_Innermost

\* a chain of exactly 30 aliases resolved to the innermost file
C1_Witness ==
    /\ C1_Case
    /\ Depth(host, GetSymbol(host, target), NumSyms(host)) = MaxSteps
    /\ ~relative
    /\ result = PathResult(host.originFile)

-----------------------------------------------------------------------------
(* C2: termination and bounded recursion *)

\* C2 as stated: every call terminates and the mutual recursion
\* getOriginalSymbol -> resolvePropertySymbol -> getOriginalSymbol is bounded:
\* no two activations wait on a property lookup for the same symbol (the
\* visited set catches the cycle), and in a program whose queries do not
\* raise, no call ends by exhausting the call stack.
C2_BoundedRecursion ==
    /\ \A i, j \in 1 .. Len(stack) :
          (i < j /\ stack[i].pc = "await" /\ stack[j].pc = "await")
              => stack[i].symbol # stack[j].symbol
    /\ host.faulty = {} => ~raised

-----------------------------------------------------------------------------
(* C3: the circular barrel *)

\* the program of the test "handles circular barrel files without infinite
\* loop": a.ts holds `export const Foo = 1; export * from './b'`, b.ts holds
\* `export * from './a'`, index.ts imports Foo from './b'.  The host binds
\* the import either straight to a.ts's Foo or through b.ts's re-export.
CircularBarrel(h) ==
    /\ h.hops \in {<<"alias">>, <<"alias", "alias">>}
    /\ h.end = "varlit"
    /\ h.prop = 0
    /\ h.refFile = IndexFile
    /\ h.originFile = AFile

\* C3: on the re-export cycle, tracing the reference that imports the name
\* through B returns A's file, not B's file and not absence.
C3_CircularBarrel ==
    (Completed /\ CircularBarrel(host) /\ node = RefPlain(host))
        => /\ originalFilePath = AFile
           /\ result = PathResult(IF relative THEN <<".", "/", "a">> ELSE AFile)

C3_Witness ==
    /\ Completed
    /\ CircularBarrel(host)
    /\ Len(host.hops) = 2
    /\ node = RefPlain(host)
    /\ ~relative
    /\ result = PathResult(AFile)
    /\ result # PathResult(FileOfSymbol(host, 2))

-----------------------------------------------------------------------------
(* C4: no fault crosses the boundary *)

\* C4: every call ends with a path string or the absence marker, never with
\* a fault; a raised fault yields absence; and no path is returned by a host
\* whose selection, binding, alias, declarations or location query raises.
C4_NoFaultEscapes ==
    pc = "done" =>
        /\ result.kind \in {"string", "undefined"}
        /\ result.kind = "string" => result.value # <<>>
        /\ result.kind = "undefined" => result.value = <<>>
        /\ raised => result = Undefined
        /\ (host.faulty \cap {"selection", "binding", "alias", "declarations",
                              "location"} # {}) => result = Undefined

\* the last host query of a trace raised and the call returned absence
C4_Witness ==
    /\ pc = "done"
    /\ host.faulty = {"location"}
    /\ origin # 0
    /\ raised
    /\ result = Undefined

-----------------------------------------------------------------------------
(* C5: the prefix of relative paths *)

\* C5 as stated: with relative = true, every path returned starts with './'
\* or '../'.
C5_RelativePrefix ==
    (pc = "done" /\ relative /\ result.kind = "string")
        => \/ StartsWith(result.value, <<".", "/">>)
           \/ StartsWith(result.value, <<".", ".", "/">>)

-----------------------------------------------------------------------------
(* C6: dotted access *)

\* the symbol whose origin a trace of target node n is to yield: the
\* contributor of the property when there is one, else the object's symbol
C6_Subject(h, n) ==
    IF Contributor(h, n) # 0 THEN GetSymbol(h, Contributor(h, n))
    ELSE GetSymbol(h, n)

\* a completed trace of the object operand, the name or the whole of `X.p`,
\* X bound, the chain to follow acyclic and within the walker's step cap
C6_Case ==
    /\ Completed
    /\ node \in {Operand(host), NameHalf(host), Access(host)}
    /\ GetSymbol(host, target) # 0
    /\ Acyclic(host, C6_Subject(host, target))
    /\ Depth(host, C6_Subject(host, target), NumSyms(host)) <= MaxSteps

\* C6: tracing the object operand or the property name of object.property
\* yields the origin file of object, unless the property has a contributing
\* declaration, in which case it yields the origin file of the first
\* contributor.
C6_DottedAccess ==
    C6_Case =>
        LET file == OriginFile(host, C6_Subject(host, target))
        IN  /\ target = Operand(host)
            /\ originalFilePath = file
            /\ (file = <<>>) = (result = Undefined)
            /\ (file # <<>> /\ ~relative) => result = PathResult(file)

\* the name half of `X.p` was traced and resolved to the contributor's file,
\* which is not the file the object comes from
C6_Witness ==
    /\ C6_Case
    /\ node = NameHalf(host)
    /\ Contributor(host, target) # 0
    /\ result.kind = "string"
    /\ originalFilePath = OriginFile(host, GetSymbol(host, Contributor(host, target)))
    /\ originalFilePath # OriginFile(host, GetSymbol(host, target))

-----------------------------------------------------------------------------
(* C7: unbound references *)

\* C7: a reference whose selected target node has no binding yields absence,
\* in absolute and in relative mode.
C7_Unbound ==
    (pc = "done" /\ target # 0 /\ GetSymbol(host, target) = 0)
        => /\ result = Undefined
           /\ origin = 0

C7_Witness ==
    /\ pc = "done"
    /\ node = RefUnbound(host)
    /\ target = node
    /\ relative
    /\ ~raised
    /\ result = Undefined

-----------------------------------------------------------------------------
(* C8: idempotence *)

\* C8: a second call on the same node with the same options over the
\* unchanged host returns what the first call returned.
C8_Idempotent ==
    (pc = "done" /\ prev.node # 0 /\ prev.node = node /\ prev.options = options)
        => result = prev.result

\* a second call completed with a path after a first call that had left a
\* visited set of several symbols
C8_Witness ==
    /\ pc = "done"
    /\ prev.node = node
    /\ node # 0
    /\ Cardinality(prev.left) >= 2
    /\ result.kind = "string"
    /\ result = prev.result

-----------------------------------------------------------------------------
(* C9: plain reassignment *)

\* a completed trace, without a property context, of a reference whose chain
\* is acyclic and within the walker's step cap
C9_Case ==
    /\ Completed
    /\ GetSymbol(host, target) # 0
    /\ Contributor(host, target) = 0
    /\ Acyclic(host, GetSymbol(host, target))
    /\ Depth(host, GetSymbol(host, target), NumSyms(host)) <= MaxSteps

\* C9: a name bound by a variable declaration whose initializer is bound to a
\* symbol resolves to the origin file of the initializer's symbol.
C9_Reassignment ==
    C9_Case =>
        \A v \in ChainOf(host, GetSymbol(host, target)) :
            IsReassignment(host, v) =>
                LET file == OriginFile(host, Successor(host, v))
                IN  /\ originalFilePath = file
                    /\ (file = <<>>) = (result = Undefined)
                    /\ (file # <<>> /\ ~relative) => result = PathResult(file)

\* the reference of the test: Alias resolved to a.ts, not to the file of
\* `const Alias = Foo`
C9_Witness ==
    /\ C9_Case
    /\ host.hops = <<"alias", "var", "alias">>
    /\ IsReassignment(host, 2)
    /\ ~relative
    /\ result = PathResult(AFile)
    /\ result # PathResult(FileOfSymbol(host, 2))

-----------------------------------------------------------------------------
(* C10: the base of relative paths *)

RECURSIVE ApplySegs(_, _)
ApplySegs(base, segs) ==
    IF segs = <<>> THEN base
    ELSE IF Head(segs) = <<".">> THEN ApplySegs(base, Tail(segs))
    ELSE IF Head(segs) = <<".", ".">>
         THEN ApplySegs(IF base = <<>> THEN <<>> ELSE SubSeq(base, 1, Len(base) - 1),
                        Tail(segs))
    ELSE ApplySegs(Append(base, Head(segs)), Tail(segs))

\* the absolute path that relative path rel denotes from directory dir
ResolveFrom(dir, rel) == <<"/">> \o JoinSegs(ApplySegs(Segments(dir), Segments(rel)))

\* C10: in relative mode the returned path, read from the directory of the
\* file that holds the original reference node, denotes the resolved file.
C10_RelativeBase ==
    (pc = "done" /\ relative /\ result.kind = "string")
        => ResolveFrom(dirname(GetFilePath(host, node)), result.value)
               = originalFilePath

\* a trace through a barrel in another directory, from a file in a third
C10_Witness ==
    /\ pc = "done"
    /\ relative
    /\ Len(host.hops) = 2
    /\ host.refFile = <<"/", "s", "/", "c", "/", "u">>
    /\ host.originFile = <<"/", "s", "/", "l", "/", "b">>
    /\ dirname(FileOfSymbol(host, 2)) # dirname(host.refFile)
    /\ result = PathResult(<<".", ".", "/", "l", "/", "b">>)

-----------------------------------------------------------------------------
(* C11: absolute mode *)

\* C11: with options left out, relative unset or relative = false, a call
\* that returns a path returns exactly the file of the first declaration of
\* the symbol the walker ended on, and returns absence when that symbol has
\* no declarations.
C11_AbsoluteMode ==
    (pc = "done" /\ options \in {"omitted", "empty", "false"} /\ ~raised
                 /\ origin # 0)
        => LET declarations == GetDeclarations(host, origin)
           IN  IF declarations = <<>>
               THEN result = Undefined
               ELSE /\ result = PathResult(GetFilePath(host, declarations[1]))
                    /\ result.value = originalFilePath

\* a symbol declared in two files, traced with no options: the first file
C11_Witness ==
    /\ pc = "done"
    /\ options = "omitted"
    /\ host.end = "def2"
    /\ origin = LastSym(host)
    /\ result = PathResult(host.originFile)
    /\ result.value # GetFilePath(host, Decl2(host, origin))

-----------------------------------------------------------------------------
(* C12 and C17: the target node selector *)

\* the dotted accesses of the consuming file and the name half of each
DottedAccesses(h) == {Access(h), OuterAccess(h)}
NameOf(h, e) == IF e = Access(h) THEN NameHalf(h) ELSE OuterName(h)

\* a call whose selection did not raise
Selected == pc # "idle" /\ "selection" \notin host.faulty

\* C12 as stated: for a dotted access E, the selector maps E and the name
\* half of E to the object operand of E, so that tracing E, its name and its
\* object operand all resolve the same node, the object operand.
C12_SameNode ==
    Selected =>
        \A e \in DottedAccesses(host) :
            node \in {e, NameOf(host, e), GetExpression(host, e)}
                => target = GetExpression(host, e)

\* C12 as amended: the selector maps E and the name half of E to the object
\* operand of E; tracing the object operand resolves that same node when the
\* operand is not itself a dotted access.
C12_Selector ==
    Selected =>
        \A e \in DottedAccesses(host) :
            /\ node \in {e, NameOf(host, e)} => target = GetExpression(host, e)
            /\ (/\ node = GetExpression(host, e)
                /\ GetKind(host, node) # "PropertyAccessExpression")
                  => target = GetExpression(host, e)

\* the name half of `X.p` was traced and the walker ran on X
C12_Witness ==
    /\ pc = "done"
    /\ node = NameHalf(host)
    /\ target = Operand(host)
    /\ target # node
    /\ origin # 0

\* C17 as stated: every input node that is the object operand of a dotted
\* access is returned unchanged, whatever its syntactic kind.
C17_OperandUnchanged ==
    (Selected /\ IsObjectOperand(host, node)) => target = node

\* C17 as amended: an object operand that is not itself a dotted access is
\* returned unchanged; an object operand that is itself a dotted access (the
\* inner `a.b` of `a.b.c`) is replaced by its own object operand.
C17_OperandByKind ==
    (Selected /\ IsObjectOperand(host, node)) =>
        IF GetKind(host, node) = "PropertyAccessExpression"
        THEN target = GetExpression(host, node)
        ELSE target = node

\* the inner `X.p` of `X.p.q` was traced and the walker ran on X
C17_Witness ==
    /\ pc = "done"
    /\ node = InnerAccess(host)
    /\ IsObjectOperand(host, node)
    /\ target = InnerOperand(host)
    /\ origin # 0

-----------------------------------------------------------------------------
(* C13: the walker's cycle rule *)

Frames == {stack[k] : k \in 1 .. Len(stack)}

\* C13 as stated: a walker that stops because the symbol about to be
\* processed is already in its visited set returns the symbol it held just
\* before closing the cycle, not the re-encountered symbol and not absence.
C13_PreCycleSymbol ==
    \A f \in Frames :
        (f.pc = "ret" /\ f.why = "visited")
            => /\ f.symbol # 0
               /\ f.symbol = f.before

-----------------------------------------------------------------------------
(* C14: the visited-set invariant *)

\* C14 as stated: within one call no symbol is expanded more than once,
\* the expansions of the walkers started by resolvePropertySymbol included.
C14_ExpandedOnce ==
    \A i, j \in 1 .. Len(expansions) :
        i < j => expansions[i] # expansions[j]

-----------------------------------------------------------------------------
(* C15: the order of the rules *)

\* resolvePropertySymbol, asked at node n for symbol s, reaches the walker
PropertyFound(h, s, n) ==
    /\ n # 0
    /\ IsObjectOperand(h, n)
    /\ PropertyDeclaration(h, s, GetName(h, GetParent(h, n))) > 0

\* C15: in every walker step the property rule comes first when the current
\* node is an object operand, and what it yields is adopted even when the
\* symbol is an alias; otherwise the alias rule comes before the
\* reassignment rule, so a symbol that is an alias with an aliased symbol is
\* never unwound through its declaration's initializer.
C15_RuleOrder ==
    \A f \in Frames :
        /\ f.rule = "property" => PropertyFound(host, f.before, f.from)
        /\ f.rule \in {"alias", "initializer"}
              => ~PropertyFound(host, f.before, f.from)
        /\ f.rule = "alias"
              => /\ IsAliasHop(host, f.before)
                 /\ f.symbol = GetAliasedSymbol(host, f.before)
        /\ f.rule = "initializer" => ~IsAliasHop(host, f.before)
        /\ (f.pc = "ret" /\ f.why = "terminal")
              => ~PropertyFound(host, f.symbol, f.current)

\* the property rule adopted a symbol although the symbol held was an alias
\* with an aliased symbol
C15_Witness ==
    /\ stack # <<>>
    /\ stack[1].rule = "property"
    /\ IsAliasHop(host, stack[1].before)
    /\ stack[1].symbol # GetAliasedSymbol(host, stack[1].before)

-----------------------------------------------------------------------------
(* C16: a composite lookup that misses *)

\* symbol s has no declarations, or the type of its first declaration has
\* no property of that name, or the property has no declarations
Misses(h, s, name) ==
    \/ GetDeclarations(h, s) = <<>>
    \/ GetTypeProperty(h, GetDeclarations(h, s)[1], name) = 0
    \/ GetDeclarations(h, GetTypeProperty(h, GetDeclarations(h, s)[1], name)) = <<>>

\* the lookup of p for the symbol of X in `X.p` misses
LookupMisses(h) ==
    /\ GetSymbol(h, Operand(h)) # 0
    /\ Misses(h, GetSymbol(h, Operand(h)), "p")

\* C16: a lookup that misses raises nothing, the walker goes on to the alias
\* and reassignment rules for the same symbol in the same step, and the
\* trace returns what tracing the plain reference X returns.
C16_SilentMiss ==
    /\ \A f \in Frames :
          (/\ f.rule # ""
           /\ f.from # 0
           /\ host.faulty = {}
           /\ IsObjectOperand(host, f.from)
           /\ Misses(host, f.before, GetName(host, GetParent(host, f.from))))
              => /\ f.rule \in {"alias", "initializer"}
                 /\ f.symbol = Successor(host, f.before)
    /\ (/\ pc = "done"
        /\ host.faulty = {}
        /\ LookupMisses(host)
        /\ node = RefPlain(host)
        /\ prev.node \in {Access(host), Operand(host), NameHalf(host)}
        /\ prev.options = options)
          => /\ ~prev.raised
             /\ ~raised
             /\ result = prev.result

\* `X.p` with no property p, then `X`: the same path twice
C16_Witness ==
    /\ pc = "done"
    /\ host.faulty = {}
    /\ LookupMisses(host)
    /\ Len(host.hops) >= 1
    /\ node = RefPlain(host)
    /\ prev.node = Operand(host)
    /\ prev.options = options
    /\ result.kind = "string"
    /\ result = prev.result

-----------------------------------------------------------------------------
(* C18: the terminal symbol *)

\* s is not an alias that has an aliased symbol, and its first declaration
\* is not a variable declaration whose initializer is bound to a symbol
IsTerminal(h, s) ==
    /\ ~(IsAlias(h, s) /\ GetAliasedSymbol(h, s) # 0)
    /\ LET d == GetDeclarations(h, s)
       IN  ~(/\ d # <<>>
             /\ GetKind(h, d[1]) = "VariableDeclaration"
             /\ GetInitializer(h, d[1]) # 0
             /\ GetSymbol(h, GetInitializer(h, d[1])) # 0)

\* C18: a walker that stops without having met a visited symbol and without
\* exhausting its step budget returns a terminal symbol, and a path returned
\* by such a trace is the file of the first declaration of that symbol.
C18_Terminal ==
    /\ \A f \in Frames :
          (f.pc = "ret" /\ f.why \notin {"visited", "budget"} /\ f.symbol # 0)
              => IsTerminal(host, f.symbol)
    /\ (/\ pc = "done"
        /\ result.kind = "string"
        /\ stack # <<>>
        /\ stack[1].why \notin {"visited", "budget"})
          => /\ origin = stack[1].symbol
             /\ IsTerminal(host, origin)
             /\ originalFilePath = FileOfSymbol(host, origin)

\* a trace through an alias and a reassignment that ended on `const S = 1`
C18_Witness ==
    /\ pc = "done"
    /\ stack # <<>>
    /\ host.hops = <<"alias", "var">>
    /\ host.end = "varlit"
    /\ stack[1].why = "terminal"
    /\ origin = LastSym(host)
    /\ result.kind = "string"

-----------------------------------------------------------------------------
(* C20: the walker and absence *)

\* C20: a walker holds no symbol if and only if the node it started from has
\* no binding, at every step and when it returns; a walker that exhausts its
\* budget has made 30 passes and returns the symbol it holds then.
C20_AbsenceIffUnbound ==
    \A f \in Frames :
        /\ (f.symbol = 0) = (GetSymbol(host, f.start) = 0)
        /\ f.symbol = 0 => (f.rule = "" /\ f.current = f.start)
        /\ (f.pc = "ret" /\ f.why = "budget")
              => /\ f.i = MaxSteps
                 /\ Cardinality(f.visited) = MaxSteps
                 /\ f.rule # ""
                 /\ f.symbol # 0

\* the walker's budget ran out and the trace returned a path
C20_Witness ==
    /\ pc = "done"
    /\ stack # <<>>
    /\ stack[1].why = "budget"
    /\ stack[1].i = MaxSteps
    /\ origin # 0
    /\ origin = stack[1].symbol
    /\ result.kind = "string"

-----------------------------------------------------------------------------
(* C19: two calls in flight *)

\* the walker run to its end with nothing else in flight: the symbol the
\* outermost activation returns, -1 when a fault is raised
RECURSIVE WalkAlone(_, _)
WalkAlone(h, stk) ==
    LET n == Len(stk)
        top == stk[n]
    IN  IF top.pc = "loop"
        THEN LET out == LoopPass(h, top, n)
             IN  IF out.k = "throw" THEN -1
                 ELSE IF out.k = "call"
                      THEN WalkAlone(h, SubSeq(stk, 1, n - 1) \o <<out.f, out.g>>)
                      ELSE WalkAlone(h, SubSeq(stk, 1, n - 1) \o <<out.f>>)
        ELSE IF n = 1 THEN top.symbol
        ELSE LET out == Resume(h, stk[n - 1], top.symbol)
             IN  IF out.k = "throw" THEN -1
                 ELSE WalkAlone(h, SubSeq(stk, 1, n - 2) \o <<out.f>>)

\* what traceOrigin(n, opt) returns when it is the only call
RunAlone(h, n, opt) ==
    IF "selection" \in h.faulty THEN CatchHandler
    ELSE LET targetNode == getTargetNodeForResolution(h, n)
         IN  IF targetNode = 0 THEN Undefined
             ELSE IF "binding" \in h.faulty THEN CatchHandler
             ELSE LET symbol == WalkAlone(h, <<Enter(h, targetNode, {})>>)
                  IN  IF symbol = -1 THEN CatchHandler
                      ELSE LET out == Conclude(h, symbol, OptionsRelative(opt),
                                               targetNode)
                           IN  IF out.k = "throw" THEN CatchHandler
                               ELSE out.result

\* a call that has ended returned what it returns alone
AsAlone(c) == c.pc = "done" => c.result = RunAlone(host, c.node, c.options)

\* the visited set of every activation of call c holds what that activation
\* put into it and nothing else: one symbol for each pass that expanded
OwnVisited(c) ==
    \A k \in 1 .. Len(c.stack) :
        LET f == c.stack[k]
        IN  Cardinality(f.visited) =
                IF f.pc = "await" \/ (f.pc = "ret" /\ f.why = "terminal")
                THEN f.i + 1 ELSE f.i

\* C19: when the steps of two calls over the same host interleave in any
\* order, each call returns what it returns alone, each walker's visited
\* set holds only what that walker put into it, a step of one call leaves
\* the other call's variables as they are, and no step changes the host.
C19_Isolated ==
    /\ [](/\ AsAlone(Running)
          /\ AsAlone(other)
          /\ OwnVisited(Running)
          /\ OwnVisited(other))
    /\ [][/\ host' = host
          /\ \/ other' = other
             \/ other' = Running /\ Running' = other]_vars

\* one call ended with a path while the other, begun before it ended, is in
\* the middle of its walk
C19_Witness ==
    /\ pc = "done"
    /\ result.kind = "string"
    /\ expansions # <<>>
    /\ other.pc = "walk"
    /\ other.stack # <<>>
    /\ other.stack[1].visited \cap stack[1].visited # {}
    /\ other.node # node

====
